---------------------------- MODULE Spec2Model ----------------------------
(***************************************************************************)
(* Model of run_game.py (shadow game): the ray/segment intersection, the   *)
(* radial-sweep visibility polygon, the movement/collision rule, the goal  *)
(* latch and the scene/event loop.                                         *)
(*                                                                         *)
(* Numbers.  Vector2 holds floats.  Obstacle endpoints and the rounded     *)
(* light position are integers, so every t1, t2 of intersect_ray_line is a *)
(* quotient of two integers: the model keeps them as exact fractions       *)
(* <<numerator, denominator>> with a positive denominator.  A coordinate   *)
(* of a position is a double, kept as <<sign, mantissa, exponent>>, and    *)
(* the arithmetic on positions rounds as the doubles of Vector2 do: the    *)
(* moves that are accepted depend on the rounding.                         *)
(***************************************************************************)
EXTENDS Integers, Sequences, FiniteSets, TLC

VARIABLES
    rayCall,    \* intersect_ray_line: [origin, direction, p1, p2, result]
    losCall,    \* LightSource.line_of_sight_polygon: [light, obstacles, result]
    scene,      \* Game.scene: "game" or "mainmenu" (the key of Game.scenes it is)
    game,       \* Game.scenes["game"]: [player, light, activated]
    menu,       \* Game.scenes["mainmenu"]: [rendered]: the buttons have their rects
    queue,      \* pygame's event queue: the user events posted and not yet fetched
    keys,       \* pygame.key.get_pressed(): the set of keys held
    running,    \* "running", "exit" (SystemExit) or "error" (an exception left run)
    frame,      \* iterations of the loop of Game.run so far
    hist        \* history of the last iteration, for the properties

vars == <<rayCall, losCall, scene, game, menu, queue, keys, running, frame, hist>>


\* Python's None, as a result record
None == [kind |-> "None"]

\* a call of a harness that has not returned, and a harness that is not in use
Pending == [kind |-> "pending"]

Idle == [kind |-> "idle"]

IdleRay == [origin |-> <<0, 0>>, direction |-> <<1, 0>>, p1 |-> <<0, 0>>,
            p2 |-> <<1, 0>>, result |-> Idle]

IdleLos == [light |-> << <<0, <<>>, 0>>, <<0, <<>>, 0>> >>, obstacles |-> <<>>,
            result |-> Idle, boundary_result |-> Idle]

(***************************************************************************)
(* Integer helpers                                                         *)
(***************************************************************************)
Abs(n) == IF n < 0 THEN -n ELSE n

Sign(n) == IF n < 0 THEN -1 ELSE IF n > 0 THEN 1 ELSE 0

Min(a, b) == IF a < b THEN a ELSE b

Max(a, b) == IF a > b THEN a ELSE b

\* sign of a*b - c*d for positive a, b, c, d, by comparing the continued
\* fractions of a/c and d/b (no product is formed: the operands may be large)
RECURSIVE CmpFrac(_, _, _, _)
CmpFrac(p, q, r, s) ==
    IF p \div q # r \div s THEN Sign((p \div q) - (r \div s))
    ELSE IF p % q = 0 /\ r % s = 0 THEN 0
    ELSE IF p % q = 0 THEN -1
    ELSE IF r % s = 0 THEN 1
    ELSE CmpFrac(s, r % s, q, p % q)

\* sign of a*b - c*d
CmpProd(a, b, c, d) ==
    LET sl == Sign(a) * Sign(b)
        sr == Sign(c) * Sign(d)
    IN  IF sl # sr THEN Sign(sl - sr)
        ELSE IF sl = 0 THEN 0
        ELSE sl * CmpFrac(Abs(a), Abs(c), Abs(d), Abs(b))

\* floor of the square root of x, lo*lo <= x < hi*hi, by bisection
RECURSIVE ISqrtBetween(_, _, _)
ISqrtBetween(x, lo, hi) ==
    IF hi - lo <= 1 THEN lo
    ELSE LET mid == (lo + hi) \div 2
         IN  IF mid * mid <= x THEN ISqrtBetween(x, mid, hi)
                               ELSE ISqrtBetween(x, lo, mid)

ISqrt(x) == ISqrtBetween(x, 0, IF x < 46340 THEN x + 1 ELSE 46341)

(***************************************************************************)
(* Natural numbers of any size, as sequences of digits to the base BBase,  *)
(* lowest digit first and no leading zero: the mantissa of a double and    *)
(* the exact sums and products that are rounded to one do not fit the      *)
(* machine integers.                                                       *)
(***************************************************************************)
\* bits of a digit
BBits == 14

BBase == 2 ^ BBits

RECURSIVE BNat(_)
BNat(n) == IF n = 0 THEN <<>> ELSE <<n % BBase>> \o BNat(n \div BBase)

RECURSIVE BTrim(_)
BTrim(x) ==
    IF x = <<>> THEN <<>>
    ELSE IF x[Len(x)] = 0 THEN BTrim(SubSeq(x, 1, Len(x) - 1))
    ELSE x

\* digit i of x, 0 above its top digit
BDigitOr0(x, i) == IF i <= Len(x) THEN x[i] ELSE 0

BRest(x) == IF x = <<>> THEN <<>> ELSE Tail(x)

RECURSIVE BAddC(_, _, _)
BAddC(x, y, carry) ==
    IF x = <<>> /\ y = <<>>
    THEN IF carry = 0 THEN <<>> ELSE <<carry>>
    ELSE <<(BDigitOr0(x, 1) + BDigitOr0(y, 1) + carry) % BBase>>
            \o BAddC(BRest(x), BRest(y),
                     (BDigitOr0(x, 1) + BDigitOr0(y, 1) + carry) \div BBase)

BAdd(x, y) == BAddC(x, y, 0)

\* x - y for x >= y
RECURSIVE BSubB(_, _, _)
BSubB(x, y, borrow) ==
    IF x = <<>> THEN <<>>
    ELSE <<(x[1] - BDigitOr0(y, 1) - borrow + BBase) % BBase>>
            \o BSubB(Tail(x), BRest(y),
                     IF x[1] - BDigitOr0(y, 1) - borrow < 0 THEN 1 ELSE 0)

BSub(x, y) == BTrim(BSubB(x, y, 0))

RECURSIVE BMulDigit(_, _, _)
BMulDigit(x, d, carry) ==
    IF x = <<>>
    THEN IF carry = 0 THEN <<>> ELSE <<carry>>
    ELSE <<(x[1] * d + carry) % BBase>>
            \o BMulDigit(Tail(x), d, (x[1] * d + carry) \div BBase)

RECURSIVE BMulRaw(_, _)
BMulRaw(x, y) ==
    IF x = <<>> \/ y = <<>> THEN <<>>
    ELSE BAdd(BMulDigit(x, y[1], 0), <<0>> \o BMulRaw(x, Tail(y)))

BMul(x, y) == BTrim(BMulRaw(x, y))

\* sign of x - y
RECURSIVE BCmp(_, _)
BCmp(x, y) ==
    IF Len(x) # Len(y) THEN Sign(Len(x) - Len(y))
    ELSE IF x = <<>> THEN 0
    ELSE IF x[Len(x)] # y[Len(y)] THEN Sign(x[Len(x)] - y[Len(y)])
    ELSE BCmp(SubSeq(x, 1, Len(x) - 1), SubSeq(y, 1, Len(y) - 1))

\* the number of bits of a digit d > 0
DigitLen(d) ==
    IF d < 128
    THEN IF d < 8 THEN (IF d < 2 THEN 1 ELSE IF d < 4 THEN 2 ELSE 3)
         ELSE IF d < 32 THEN (IF d < 16 THEN 4 ELSE 5)
         ELSE IF d < 64 THEN 6 ELSE 7
    ELSE IF d < 1024 THEN (IF d < 256 THEN 8 ELSE IF d < 512 THEN 9 ELSE 10)
         ELSE IF d < 4096 THEN (IF d < 2048 THEN 11 ELSE 12)
         ELSE IF d < 8192 THEN 13 ELSE 14

\* the number of bits of x
BLen(x) == IF x = <<>> THEN 0 ELSE BBits * (Len(x) - 1) + DigitLen(x[Len(x)])

\* the value of x, for x of at most three digits
BVal(x) ==
    IF x = <<>> THEN 0
    ELSE IF Len(x) = 1 THEN x[1]
    ELSE IF Len(x) = 2 THEN x[1] + BBase * x[2]
    ELSE x[1] + BBase * (x[2] + BBase * x[3])

\* x * 2^k
BShl(x, k) ==
    IF x = <<>> \/ k = 0 THEN x
    ELSE IF k % BBits = 0 THEN [i \in 1..(k \div BBits) |-> 0] \o x
    ELSE [i \in 1..(k \div BBits) |-> 0] \o BMulDigit(x, 2 ^ (k % BBits), 0)

\* floor(x / 2^k)
BShr(x, k) ==
    IF k = 0 THEN x
    ELSE IF Len(x) <= k \div BBits THEN <<>>
    ELSE BTrim([i \in 1..(Len(x) - (k \div BBits)) |->
            (x[i + (k \div BBits)] \div (2 ^ (k % BBits)))
            + (IF i + (k \div BBits) < Len(x)
               THEN (x[i + (k \div BBits) + 1] % (2 ^ (k % BBits)))
                       * (2 ^ (BBits - (k % BBits)))
               ELSE 0)])

\* x is a multiple of 2^k
BLowZero(x, k) ==
    /\ \A i \in 1..Min(k \div BBits, Len(x)) : x[i] = 0
    /\ \/ k \div BBits >= Len(x)
       \/ x[(k \div BBits) + 1] % (2 ^ (k % BBits)) = 0

\* bit k of x
BBitAt(x, k) ==
    IF k \div BBits >= Len(x) THEN 0
    ELSE (x[(k \div BBits) + 1] \div (2 ^ (k % BBits))) % 2

\* the number of trailing zero bits of a digit d > 0, and of x > 0
RECURSIVE DigitTz(_)
DigitTz(d) == IF d % 2 = 1 THEN 0 ELSE 1 + DigitTz(d \div 2)

RECURSIVE BTz(_)
BTz(x) == IF x[1] = 0 THEN BBits + BTz(Tail(x)) ELSE DigitTz(x[1])

\* quotient and remainder of x by a divisor d < 2^17, digit by digit from the
\* top: rem is the remainder so far and q the quotient so far
RECURSIVE BDivSmall(_, _, _, _)
BDivSmallPut(x, d, cur, q) ==
    IF cur < d THEN BDivSmall(x, d, cur, <<0>> \o q)
    ELSE BDivSmall(x, d, cur % d, <<cur \div d>> \o q)

BDivSmall(x, d, rem, q) ==
    IF x = <<>> THEN [q |-> q, r |-> rem]
    ELSE BDivSmallPut(SubSeq(x, 1, Len(x) - 1), d, rem * BBase + x[Len(x)], q)

\* the quotient digit of cur by y from its estimate qhat, which is not below
\* it and at most two above
BLongFix(y, cur, qhat) ==
    IF qhat = 0 \/ BCmp(BMulDigit(y, qhat, 0), cur) <= 0 THEN qhat
    ELSE IF qhat = 1 \/ BCmp(BMulDigit(y, qhat - 1, 0), cur) <= 0 THEN qhat - 1
    ELSE qhat - 2

\* the estimate is the quotient of the two top digits of cur by the top digit
\* of y
BLongDigit(y, cur) ==
    BLongFix(y, cur,
             Min(BBase - 1,
                 (BDigitOr0(cur, Len(y) + 1) * BBase + BDigitOr0(cur, Len(y)))
                    \div y[Len(y)]))

\* long division by y whose top digit has its top bit set, digit by digit
\* from the top: rem < y is the remainder so far and q the quotient so far
RECURSIVE BLong(_, _, _, _)
BLongPut(x, y, cur, q, d) ==
    IF d = 0 THEN BLong(x, y, cur, <<0>> \o q)
    ELSE BLong(x, y, BSub(cur, BMulDigit(y, d, 0)), <<d>> \o q)

BLongNext(x, y, cur, q) == BLongPut(x, y, cur, q, BLongDigit(y, cur))

BLong(x, y, rem, q) ==
    IF x = <<>> THEN [q |-> q, r |-> rem]
    ELSE BLongNext(SubSeq(x, 1, Len(x) - 1), y, BTrim(<<x[Len(x)]>> \o rem), q)

\* the top Len(y) - 1 digits of x are below y: the division starts after them
BLongFrom(x, y) ==
    IF Len(x) < Len(y) THEN [q |-> <<>>, r |-> x]
    ELSE BLong(SubSeq(x, 1, Len(x) - Len(y) + 1), y,
               SubSeq(x, Len(x) - Len(y) + 2, Len(x)), <<>>)

\* d is the outcome of a division and zero its remainder when exact
BDivModOf(d, zero) == [q |-> BTrim(d.q), exact |-> d.r = zero]

\* the quotient of x by y > 0, and whether the division is exact
BDivMod(x, y) ==
    IF Len(y) = 1 \/ (Len(y) = 2 /\ y[2] < 8)
    THEN BDivModOf(BDivSmall(x, BVal(y), 0, <<>>), 0)
    ELSE BDivModOf(BLongFrom(BShl(x, BBits - DigitLen(y[Len(y)])),
                             BShl(y, BBits - DigitLen(y[Len(y)]))), <<>>)

\* floor of the square root of x > 0: Newton's iteration downwards from a
\* guess g that is not below the root
RECURSIVE BSqrtFrom(_, _)
BSqrtStep(x, g, h) == IF BCmp(h, g) >= 0 THEN g ELSE BSqrtFrom(x, h)

BSqrtFrom(x, g) == BSqrtStep(x, g, BShr(BAdd(g, BDivMod(x, g).q), 1))

\* the first guess is taken from the top 28 or 29 bits of x, cut at an even
\* bit k
BSqrtCut(x, k) ==
    BSqrtFrom(x, BShl(BNat(ISqrt(BVal(BShr(x, k))) + 1), k \div 2))

BSqrt(x) ==
    IF BLen(x) <= 28 THEN BNat(ISqrt(BVal(x)))
    ELSE BSqrtCut(x, BLen(x) - 28 + ((BLen(x) - 28) % 2))

(***************************************************************************)
(* Doubles.  Vector2 holds C doubles and Python's floats are doubles:      *)
(* <<s, m, e>> is the double s * m * 2^e, s the sign -1, 0 or 1, m an odd  *)
(* natural number of at most Mant = 53 bits (<<>> for zero) and e an       *)
(* integer.  Every sum, difference, product, quotient and square root is   *)
(* the exact result rounded to the nearest double, a tie going to the      *)
(* even mantissa (the exponent range is not modelled: no number of the     *)
(* game is near its ends).  The X operators are exact: they return         *)
(* <<s, m, e>> with any natural m.                                         *)
(***************************************************************************)
Mant == 53

FZero == <<0, <<>>, 0>>

\* s * m * 2^e for any natural m, with the mantissa made odd
XNorm(s, m, e) ==
    IF m = <<>> \/ s = 0 THEN FZero
    ELSE IF m[1] % 2 = 1 THEN <<s, m, e>>
    ELSE <<s, BShr(m, BTz(m)), e + BTz(m)>>

\* m cut to Mant bits, k bits being dropped: up when the first dropped bit
\* is set and either a lower one is or the last kept bit is
FRoundCut(s, m, e, k) ==
    IF /\ BBitAt(m, k - 1) = 1
       /\ (BBitAt(m, k) = 1 \/ ~BLowZero(m, k - 1))
    THEN XNorm(s, BAdd(BShr(m, k), <<1>>), e + k)
    ELSE XNorm(s, BShr(m, k), e + k)

\* s * m * 2^e rounded to the nearest double
FRound(s, m, e) ==
    IF BLen(m) <= Mant THEN XNorm(s, m, e)
    ELSE FRoundCut(s, m, e, BLen(m) - Mant)

FRoundX(x) == FRound(x[1], x[2], x[3])

\* the double of an integer
FInt(n) == XNorm(Sign(n), BNat(Abs(n)), 0)

\* the exponent above the top bit of x # 0
FTop(x) == x[3] + BLen(x[2])

XAddAligned(sx, a, sy, b, e) ==
    IF sx = sy THEN <<sx, BAdd(a, b), e>>
    ELSE IF BCmp(a, b) = 0 THEN FZero
    ELSE IF BCmp(a, b) > 0 THEN <<sx, BSub(a, b), e>>
    ELSE <<sy, BSub(b, a), e>>

\* x + y, exact
XAdd(x, y) ==
    IF x[1] = 0 THEN y
    ELSE IF y[1] = 0 THEN x
    ELSE XAddAligned(x[1], BShl(x[2], x[3] - Min(x[3], y[3])),
                     y[1], BShl(y[2], y[3] - Min(x[3], y[3])),
                     Min(x[3], y[3]))

XSub(x, y) == XAdd(x, <<-y[1], y[2], y[3]>>)

\* x * y, exact
XMul(x, y) ==
    IF x[1] = 0 \/ y[1] = 0 THEN FZero
    ELSE <<x[1] * y[1], BMul(x[2], y[2]), x[3] + y[3]>>

\* sign of x - y
XCmp(x, y) ==
    IF x[1] # y[1] THEN Sign(x[1] - y[1])
    ELSE IF x[1] = 0 THEN 0
    ELSE IF FTop(x) # FTop(y) THEN x[1] * Sign(FTop(x) - FTop(y))
    ELSE x[1] * BCmp(BShl(x[2], x[3] - Min(x[3], y[3])),
                     BShl(y[2], y[3] - Min(x[3], y[3])))

\* x + y: a term more than Mant + 3 bits below the other does not change it
FAdd(x, y) ==
    IF x[1] = 0 THEN y
    ELSE IF y[1] = 0 THEN x
    ELSE IF FTop(x) - FTop(y) > Mant + 3 THEN x
    ELSE IF FTop(y) - FTop(x) > Mant + 3 THEN y
    ELSE FRoundX(XAdd(x, y))

FSub(x, y) == FAdd(x, <<-y[1], y[2], y[3]>>)

FMul(x, y) == FRoundX(XMul(x, y))

FLess(x, y) == XCmp(x, y) < 0

\* the quotient d of the mantissas, x's shifted up by k bits: an inexact
\* quotient gets a last bit set, which rounds as the remainder would
FDivRound(s, d, e) ==
    IF d.exact THEN FRound(s, d.q, e)
    ELSE FRound(s, BAdd(BShl(d.q, 1), <<1>>), e - 1)

FDivBy(x, y, k) ==
    FDivRound(x[1] * y[1], BDivMod(BShl(x[2], k), y[2]), x[3] - y[3] - k)

\* x / y for y # 0
FDiv(x, y) ==
    IF x[1] = 0 THEN FZero
    ELSE FDivBy(x, y, Max(0, Mant + 3 + BLen(y[2]) - BLen(x[2])))

\* the root r of the mantissa n of x shifted up by k bits
FSqrtRound(n, r, e) ==
    IF BCmp(BMul(r, r), n) = 0 THEN FRound(1, r, e)
    ELSE FRound(1, BAdd(BShl(r, 1), <<1>>), e - 1)

FSqrtOf(n, e) == FSqrtRound(n, BSqrt(n), e)

\* k is such that the exponent left is even
FSqrtBy(x, k) == FSqrtOf(BShl(x[2], k + ((x[3] - k) % 2)),
                         (x[3] - (k + ((x[3] - k) % 2))) \div 2)

\* math.sqrt(x) for x >= 0
FSqrt(x) ==
    IF x[1] = 0 THEN FZero
    ELSE FSqrtBy(x, Max(0, 2 * (Mant + 2) - BLen(x[2])))

\* int(x): the integer part, towards zero
PyInt(x) ==
    IF x[3] >= 0 THEN x[1] * BVal(BShl(x[2], x[3]))
    ELSE x[1] * BVal(BShr(x[2], -x[3]))

\* math.floor(x)
PyFloor(x) ==
    IF x[3] >= 0 \/ x[1] >= 0 THEN PyInt(x) ELSE PyInt(x) - 1

\* round(x): to the nearest integer, a tie going to the even one
PyRound(x) ==
    IF x[3] >= 0 THEN PyInt(x)
    ELSE IF /\ BBitAt(x[2], -x[3] - 1) = 1
            /\ (BBitAt(x[2], -x[3]) = 1 \/ ~BLowZero(x[2], -x[3] - 1))
    THEN x[1] * (BVal(BShr(x[2], -x[3])) + 1)
    ELSE x[1] * BVal(BShr(x[2], -x[3]))

(***************************************************************************)
(* pygame.math.Vector2 on doubles: a position is <<x, y>> of two doubles   *)
(***************************************************************************)
\* the Vector2 of an integer point
Pos(c) == <<FInt(c[1]), FInt(c[2])>>

PosAdd(p, d) == <<FAdd(p[1], d[1]), FAdd(p[2], d[2])>>

PosSub(p, d) == <<FSub(p[1], d[1]), FSub(p[2], d[2])>>

\* v * k
PosTimes(v, k) == <<FMul(v[1], k), FMul(v[2], k)>>

\* u.dot(v): the products are summed in order
PosDot(u, v) == FAdd(FMul(u[1], v[1]), FMul(u[2], v[2]))

\* v.length()
PosLength(v) == FSqrt(PosDot(v, v))

(***************************************************************************)
(* pygame.math.Vector2 on integer pairs <<x, y>>                           *)
(***************************************************************************)
VSub(a, b) == <<a[1] - b[1], a[2] - b[2]>>

VDot(a, b) == a[1] * b[1] + a[2] * b[2]

VCross(a, b) == a[1] * b[2] - a[2] * b[1]

\* Vector2.length() squared
VLen2(a) == a[1] * a[1] + a[2] * a[2]

(***************************************************************************)
(* intersect_ray_line(origin, direction, p1, p2).  The inputs are integer  *)
(* vectors, so dot is an integer and abs(dot) < epsilon exactly when       *)
(* dot = 0.  The result is None or [t1 |-> <<n, d>>, t2 |-> <<m, d>>],     *)
(* the fractions v2.cross(v1)/dot and v1.dot(v3)/dot with the sign of dot  *)
(* moved into the numerators.                                              *)
(***************************************************************************)
\* a variant with the cross product taken the other way round: v1.cross(v2)
intersect_ray_line_flipped(origin, direction, p1, p2) ==
    LET v1 == VSub(origin, p1)
        v2 == VSub(p2, p1)
        v3 == <<-direction[2], direction[1]>>
        dot == VDot(v2, v3)
        s == Sign(dot)
        t1n == s * VCross(v1, v2)
        t2n == s * VDot(v1, v3)
        d == Abs(dot)
    IN  IF dot = 0 THEN None
        ELSE IF t1n >= 0 /\ 0 <= t2n /\ t2n <= d
             THEN [kind |-> "hit", t1 |-> <<t1n, d>>, t2 |-> <<t2n, d>>]
             ELSE None

\* the function as written
intersect_ray_line(origin, direction, p1, p2) ==
    LET v1 == VSub(origin, p1)
        v2 == VSub(p2, p1)
        v3 == <<-direction[2], direction[1]>>
        dot == VDot(v2, v3)
        s == Sign(dot)
        t1n == s * VCross(v2, v1)
        t2n == s * VDot(v1, v3)
        d == Abs(dot)
    IN  IF dot = 0 THEN None
        ELSE IF t1n >= 0 /\ 0 <= t2n /\ t2n <= d
             THEN [kind |-> "hit", t1 |-> <<t1n, d>>, t2 |-> <<t2n, d>>]
             ELSE None

(***************************************************************************)
(* Obstacle and get_sides                                                  *)
(***************************************************************************)
Obstacle(start_pos, end_pos) == [start_pos |-> start_pos, end_pos |-> end_pos]

get_sides(width, height) ==
    LET topleft == <<0, 0>>
        topright == <<width, 0>>
        botleft == <<0, height>>
        botright == <<width, height>>
    IN  << Obstacle(botleft, topleft),
           Obstacle(topleft, topright),
           Obstacle(topright, botright),
           Obstacle(botright, botleft) >>

(***************************************************************************)
(* The sort key v.as_polar()[1] is atan2(v.y, v.x) in degrees, in          *)
(* (-180, 180], and 0 for the zero vector.  For integer vectors the order  *)
(* of the keys is decided by the half plane and the sign of the cross      *)
(* product.                                                                *)
(***************************************************************************)
AngleClass(v) ==
    IF v[2] < 0 THEN 0
    ELSE IF v[2] > 0 THEN 2
    ELSE IF v[1] >= 0 THEN 1 ELSE 3

AngleLess(u, v) ==
    \/ AngleClass(u) < AngleClass(v)
    \/ /\ AngleClass(u) = AngleClass(v)
       /\ AngleClass(u) \in {0, 2}
       /\ VCross(u, v) > 0

\* list.sort(key=...): ascending and stable
SortByAngle(ends) ==
    LET n == Len(ends)
        before(j, i) == \/ AngleLess(ends[j], ends[i])
                        \/ (~AngleLess(ends[i], ends[j]) /\ j < i)
        rank(i) == Cardinality({j \in 1..n : before(j, i)}) + 1
    IN  [k \in 1..n |-> ends[CHOOSE i \in 1..n : rank(i) = k]]

\* ends: obs.start_pos - pos, obs.end_pos - pos for every obstacle, in order
RayEnds(pos, obstacles) ==
    [k \in 1..(2 * Len(obstacles)) |->
        IF k % 2 = 1 THEN VSub(obstacles[(k + 1) \div 2].start_pos, pos)
                     ELSE VSub(obstacles[k \div 2].end_pos, pos)]

(***************************************************************************)
(* Distances along a ray are factors t of the ray vector: a fraction       *)
(* <<n, d>>, or the initial min_dist = 4500 / ray.length().                *)
(***************************************************************************)
MinDistInit == 4500

InitDist == [init |-> TRUE, n |-> 0, d |-> 1]

Dist(t) == [init |-> FALSE, n |-> t[1], d |-> t[2]]

\* t1 < m, for a fraction t1 and a distance m of the same ray
DistLess(t1, m, ray) ==
    IF m.init
    THEN \* t1 < 4500/|ray|  <=>  t1^2 * |ray|^2 < 4500^2
         (t1[1] * t1[1] * VLen2(ray)) \div (t1[2] * t1[2])
            < MinDistInit * MinDistInit
    ELSE t1[1] * m.d < m.n * t1[2]

\* one pass of the body of "for line in obstacles": obstacle k gave t1t2
ScanStep(acc, k, ray, t1t2) ==
    IF t1t2 = None THEN acc
    ELSE IF t1t2.t2[1] = 0 \/ t1t2.t2[1] = t1t2.t2[2]
         THEN [acc EXCEPT !.intersect_ends =
                 Append(@, [obs |-> k, t1 |-> t1t2.t1])]
         ELSE IF DistLess(t1t2.t1, acc.min_dist, ray)
              THEN [acc EXCEPT !.nearest_obs = k, !.min_dist = Dist(t1t2.t1)]
              ELSE acc

\* the inner loop "for line in obstacles" of one ray, from obstacle k on
RECURSIVE ScanObstacles(_, _, _, _, _)
ScanObstacles(pos, ray, obstacles, k, acc) ==
    IF k > Len(obstacles) THEN acc
    ELSE ScanObstacles(pos, ray, obstacles, k + 1,
            ScanStep(acc, k, ray,
                     intersect_ray_line(pos, ray, obstacles[k].start_pos,
                                        obstacles[k].end_pos)))

\* the loop "for iobs, t1 in intersect_ends", from entry k on
RECURSIVE ClosestEnd(_, _, _, _)
ClosestEnd(ray, intersect_ends, k, acc) ==
    IF k > Len(intersect_ends) THEN acc
    ELSE LET e == intersect_ends[k]
         IN  ClosestEnd(ray, intersect_ends, k + 1,
                 IF DistLess(e.t1, acc.closest_dist, ray)
                 THEN [closest_obs_end |-> e.obs, closest_dist |-> Dist(e.t1)]
                 ELSE acc)

\* the point pos + ray * t
Point(pos, ray, t) == [pos |-> pos, ray |-> ray, t |-> t]

(***************************************************************************)
(* One iteration of "for ray in ends" (a ray of non-zero length).          *)
(* Obstacles are identified by their index in the list, 0 is None.         *)
(***************************************************************************)
\* a variant whose else branch appends the point at closest_dist alone
EmitOnePoint(pos, ray, on_obstacle, scan, ce) ==
    IF ce.closest_obs_end = 0
    THEN [points |-> <<Point(pos, ray, scan.min_dist)>>,
          on_obstacle |-> scan.nearest_obs, branch |-> 1]
    ELSE IF ce.closest_obs_end = on_obstacle
    THEN [points |-> <<Point(pos, ray, ce.closest_dist),
                       Point(pos, ray, scan.min_dist)>>,
          on_obstacle |-> scan.nearest_obs, branch |-> 2]
    ELSE [points |-> <<Point(pos, ray, ce.closest_dist)>>,
          on_obstacle |-> ce.closest_obs_end, branch |-> 3]

\* the if/elif/else that appends to poly, and on_obstacle = nearest_obs:
\* scan is the result of the inner loop, ce that of the intersect_ends loop
Emit(pos, ray, on_obstacle, scan, ce) ==
    IF ce.closest_obs_end = 0
    THEN [points |-> <<Point(pos, ray, scan.min_dist)>>,
          on_obstacle |-> scan.nearest_obs, branch |-> 1]
    ELSE IF ce.closest_obs_end = on_obstacle
    THEN [points |-> <<Point(pos, ray, ce.closest_dist),
                       Point(pos, ray, scan.min_dist)>>,
          on_obstacle |-> scan.nearest_obs, branch |-> 2]
    ELSE [points |-> <<Point(pos, ray, scan.min_dist),
                       Point(pos, ray, ce.closest_dist)>>,
          on_obstacle |-> ce.closest_obs_end, branch |-> 3]

\* closest_obs_end = None, closest_dist = min_dist, then the loop
ClosestOf(ray, scan) ==
    ClosestEnd(ray, scan.intersect_ends, 1,
               [closest_obs_end |-> 0, closest_dist |-> scan.min_dist])

EmitScanned(pos, ray, on_obstacle, scan) ==
    Emit(pos, ray, on_obstacle, scan, ClosestOf(ray, scan))

SweepRay(pos, ray, obstacles, on_obstacle) ==
    EmitScanned(pos, ray, on_obstacle,
        ScanObstacles(pos, ray, obstacles, 1,
            [nearest_obs |-> 0, min_dist |-> InitDist, intersect_ends |-> <<>>]))

\* a variant without the test "if first_obstacle is None": every ray records
\* first_obstacle
SweepStepUnguarded(acc, step) ==
    [acc EXCEPT !.poly = @ \o step.points,
                !.on_obstacle = step.on_obstacle,
                !.first_obstacle = step.on_obstacle,
                !.emitted = Append(@, Len(step.points)),
                !.branches = Append(@, step.branch),
                !.on_after = Append(@, step.on_obstacle)]

\* the state of the sweep after a ray whose iteration gave step
SweepStep(acc, step) ==
    [acc EXCEPT !.poly = @ \o step.points,
                !.on_obstacle = step.on_obstacle,
                !.first_obstacle = IF @ = 0 THEN step.on_obstacle ELSE @,
                !.emitted = Append(@, Len(step.points)),
                !.branches = Append(@, step.branch),
                !.on_after = Append(@, step.on_obstacle)]

\* "for ray in ends", from ray k on; a zero-length ray raises at
\* 4500 / ray.length()
RECURSIVE Sweep(_, _, _, _, _)
Sweep(pos, ends, obstacles, k, acc) ==
    IF k > Len(ends) \/ acc.raised THEN acc
    ELSE IF VLen2(ends[k]) = 0 THEN [acc EXCEPT !.raised = TRUE]
    ELSE Sweep(pos, ends, obstacles, k + 1,
               SweepStep(acc, SweepRay(pos, ends[k], obstacles, acc.on_obstacle)))

\* poly[0:2] = poly[1::-1]
SwapFirstTwo(poly) ==
    IF Len(poly) < 2 THEN poly
    ELSE <<poly[2], poly[1]>> \o SubSeq(poly, 3, Len(poly))

(***************************************************************************)
(* LightSource.line_of_sight_polygon: light is the position self.pos.      *)
(* The result is [kind |-> "raised"] (ZeroDivisionError) or the polygon    *)
(* with the loop's final on_obstacle and first_obstacle and, per ray, the  *)
(* number of points it appended, its branch and on_obstacle after it.      *)
(***************************************************************************)
SweepResult(pos, ends, run) ==
    IF run.raised THEN [kind |-> "raised"]
    ELSE [kind |-> "poly",
          poly |-> IF run.on_obstacle = run.first_obstacle
                   THEN SwapFirstTwo(run.poly) ELSE run.poly,
          pos |-> pos, ends |-> ends,
          swapped |-> (run.on_obstacle = run.first_obstacle),
          on_obstacle |-> run.on_obstacle,
          first_obstacle |-> run.first_obstacle,
          emitted |-> run.emitted, branches |-> run.branches,
          on_after |-> run.on_after]

SweepFrom(pos, ends, obstacles) ==
    SweepResult(pos, ends,
        Sweep(pos, ends, obstacles, 1,
              [poly |-> <<>>, on_obstacle |-> 0, first_obstacle |-> 0,
               raised |-> FALSE, emitted |-> <<>>, branches |-> <<>>,
               on_after |-> <<>>]))

SortedEnds(pos, obstacles) == SortByAngle(RayEnds(pos, obstacles))

LosFrom(pos, obstacles) == SweepFrom(pos, SortedEnds(pos, obstacles), obstacles)

line_of_sight_polygon(light, obstacles) ==
    LosFrom(<<PyRound(light[1]), PyRound(light[2])>>, obstacles)

(***************************************************************************)
(* line_segment_dist(a, b, p) for integer points a, b and a position p.    *)
(* The integers a, b, a_to_b and norm are doubles without error.           *)
(***************************************************************************)
\* the float division raises ZeroDivisionError
ZeroDivisionError == [kind |-> "ZeroDivisionError"]

\* max(0, min(1, u))
ClampUnit(u) ==
    IF u[1] <= 0 THEN FZero
    ELSE IF FLess(u, FInt(1)) THEN u
    ELSE FInt(1)

\* u = (p - a).dot(a_to_b) / norm, for norm # 0
SegmentParam(a, a_to_b, p) ==
    FDiv(PosDot(PosSub(p, Pos(a)), Pos(a_to_b)), FInt(VDot(a_to_b, a_to_b)))

\* a + a_to_b * u - p
OffsetAt(a, a_to_b, u, p) ==
    PosSub(PosAdd(Pos(a), PosTimes(Pos(a_to_b), u)), p)

\* the vector whose length line_segment_dist returns, for a # b
ClosestOffset(a, b, p) ==
    OffsetAt(a, VSub(b, a), ClampUnit(SegmentParam(a, VSub(b, a), p)), p)

line_segment_dist(a, b, p) ==
    IF VDot(VSub(b, a), VSub(b, a)) = 0 THEN ZeroDivisionError
    ELSE [kind |-> "float", value |-> PosLength(ClosestOffset(a, b, p))]

\* dist <= radius and dist < radius, for a distance returned by
\* line_segment_dist and an integer radius
DistBelowOrEqual(dist, radius) == XCmp(dist.value, FInt(radius)) <= 0

DistBelow(dist, radius) == FLess(dist.value, FInt(radius))

\* The double below the integer r = m * 2^e > 0 is r - 2^gap, gap being
\* e - Mant for a power of two and e + bits of m - Mant otherwise; MidBelow
\* is the point half way between them
MidBelow(r) ==
    XSub(r, <<1, <<1>>, r[3] - Mant - 1
                        + (IF r[2] = <<1>> THEN 0 ELSE BLen(r[2]))>>)

\* the square of MidBelow
MidBelowSquared(r) == XMul(MidBelow(r), MidBelow(r))

\* v.length() < radius without the square root: the root, rounded to the
\* nearest double, is below radius exactly when the exact root is below the
\* point half way between radius and the double below it (it is never that
\* point, whose square has more bits than a double), that is when the dot
\* product is below the square of that point
LengthBelow(v, radius) ==
    /\ radius > 0
    /\ XCmp(PosDot(v, v), MidBelowSquared(FInt(radius))) < 0

(***************************************************************************)
(* Movable, Player, LightSource                                            *)
(***************************************************************************)
PlayerHitbox == 10

LightHitbox == 5

\* speed=1.75 and speed=1.0
PlayerSpeed == FDiv(FInt(175), FInt(100))

LightSpeed == FInt(1)

\* the pixel of a position: the floors of its coordinates
Cell(p) == <<PyFloor(p[1]), PyFloor(p[2])>>

\* Every position of the pixel cell is farther than radius + 1/2 from the
\* segment a-b: on some axis the pixel lies radius + 1 beside the box around
\* the segment, or the corner of the pixel lies radius + 2 from the line
\* through a and b (|cross| / |a_to_b| with |a_to_b| <= |x| + |y|).  The
\* rounding errors of line_segment_dist are far below 1/2, so it returns
\* radius or more.
FarFrom(a, b, cell, radius) ==
    \/ \E i \in 1..2 :
          \/ cell[i] + 2 + radius <= Min(a[i], b[i])
          \/ cell[i] >= Max(a[i], b[i]) + radius + 1
    \/ Abs(VCross(VSub(b, a), VSub(cell, a)))
          >= (radius + 2) * (Abs(b[1] - a[1]) + Abs(b[2] - a[2]))

\* line_segment_dist(o.start_pos, o.end_pos, p) < radius for an obstacle o
\* with two different ends, cell being the pixel of p: the distance is
\* computed when the pixel is not far from o
TooClose(o, p, cell, radius) ==
    /\ o.start_pos # o.end_pos
    /\ ~FarFrom(o.start_pos, o.end_pos, cell, radius)
    /\ LengthBelow(ClosestOffset(o.start_pos, o.end_pos, p), radius)

\* any(line_segment_dist(o.start_pos, o.end_pos, p) < radius for o in
\* obstacles) returns True
Blocked(obstacles, p, cell, radius) ==
    \E k \in 1..Len(obstacles) : TooClose(obstacles[k], p, cell, radius)

\* any(...) raises: it reaches an obstacle whose ends are the same point
\* before one that is closer than radius
Raises(obstacles, p, cell, radius) ==
    \E k \in 1..Len(obstacles) :
        /\ obstacles[k].start_pos = obstacles[k].end_pos
        /\ \A j \in 1..(k - 1) : ~TooClose(obstacles[j], p, cell, radius)

\* Vector2.scale_to_length(speed) of a non-zero direction: every component
\* is multiplied by speed / direction.length()
ScaleToLengthOf(direction, speed) ==
    PosTimes(Pos(direction), FDiv(speed, FSqrt(FInt(VLen2(direction)))))

\* the steps of the game, for the non-zero results of get_movement and the
\* two speeds, computed once
Steps ==
    [c \in (((-1..1) \X (-1..1)) \ {<<0, 0>>}) \X {PlayerSpeed, LightSpeed} |->
        ScaleToLengthOf(c[1], c[2])]

ScaleToLength(direction, speed) ==
    IF <<direction, speed>> \in DOMAIN Steps THEN Steps[<<direction, speed>>]
    ELSE ScaleToLengthOf(direction, speed)

\* the outcome of the test of the obstacles on the candidate new_pos
MoveTo(pos, new_pos, cell, hitbox_radius, obstacles) ==
    IF Raises(obstacles, new_pos, cell, hitbox_radius) THEN ZeroDivisionError
    ELSE IF Blocked(obstacles, new_pos, cell, hitbox_radius) THEN pos
    ELSE new_pos

\* a variant that, when the candidate is refused, tries its horizontal part
MoveSlidingTo(pos, new_pos, hitbox_radius, obstacles) ==
    IF ~Blocked(obstacles, new_pos, Cell(new_pos), hitbox_radius) THEN new_pos
    ELSE IF ~Blocked(obstacles, <<new_pos[1], pos[2]>>,
                     Cell(<<new_pos[1], pos[2]>>), hitbox_radius)
    THEN <<new_pos[1], pos[2]>>
    ELSE pos

MoveSliding(pos, direction, speed, hitbox_radius, obstacles) ==
    IF VLen2(direction) > 0
    THEN MoveSlidingTo(pos, PosAdd(pos, ScaleToLength(direction, speed)),
                       hitbox_radius, obstacles)
    ELSE pos

\* a variant without the test of the obstacles
MoveUnchecked(pos, direction, speed, hitbox_radius, obstacles) ==
    IF VLen2(direction) > 0
    THEN PosAdd(pos, ScaleToLength(direction, speed))
    ELSE pos

\* a variant that takes twenty steps at once and tests only where it lands
MoveLeapingTo(pos, new_pos, hitbox_radius, obstacles) ==
    IF ~Blocked(obstacles, new_pos, Cell(new_pos), hitbox_radius) THEN new_pos
    ELSE pos

MoveLeaping(pos, direction, speed, hitbox_radius, obstacles) ==
    IF VLen2(direction) > 0
    THEN MoveLeapingTo(pos,
            PosAdd(pos, PosTimes(ScaleToLength(direction, speed), FInt(20))),
            hitbox_radius, obstacles)
    ELSE pos

\* the position after Movable.move(direction, obstacles) from pos, or
\* ZeroDivisionError
MoveCandidate(pos, new_pos, hitbox_radius, obstacles) ==
    MoveTo(pos, new_pos, Cell(new_pos), hitbox_radius, obstacles)

Move(pos, direction, speed, hitbox_radius, obstacles) ==
    IF VLen2(direction) > 0
    THEN MoveCandidate(pos, PosAdd(pos, ScaleToLength(direction, speed)),
                       hitbox_radius, obstacles)
    ELSE pos

\* get_movement(keys, left, right, up, down)
get_movement(pressed, left, right, up, down) ==
    << (IF right \in pressed THEN 1 ELSE 0) - (IF left \in pressed THEN 1 ELSE 0),
       (IF down \in pressed THEN 1 ELSE 0) - (IF up \in pressed THEN 1 ELSE 0) >>

(***************************************************************************)
(* GameScene                                                               *)
(***************************************************************************)
WindowWidth == 800

WindowHeight == 600

\* GameScene.__init__: self.obstacles
SceneObstacles ==
    << Obstacle(<<1, 550>>, <<601, 550>>),
       Obstacle(<<600, 547>>, <<620, 599>>),
       Obstacle(<<300, 200>>, <<400, 400>>),
       Obstacle(<<500, 200>>, <<600, 100>>) >>

\* self.obstacles + self.sides
AllObstacles == SceneObstacles \o get_sides(WindowWidth, WindowHeight)

\* Goal(690, 540, 100, 50).rect = pygame.Rect(690, 540, 100, 50)
GoalRect == [x |-> 690, y |-> 540, w |-> 100, h |-> 50]

\* pygame.Rect.collidepoint of a position: the coordinates are truncated to
\* integers, the right and bottom edges are outside
collidepoint(rect, pos) ==
    LET x == PyInt(pos[1])
        y == PyInt(pos[2])
    IN  /\ rect.x <= x /\ x < rect.x + rect.w
        /\ rect.y <= y /\ y < rect.y + rect.h

\* GameScene(): the player, lights[0] and goals[0].activated
NewGameScene ==
    [player |-> Pos(<<20, 500>>),
     light |-> Pos(<<400, 100>>),
     activated |-> FALSE]

\* the GameScene after the two moves: the goal is activated when the player
\* is in its rectangle after its move
GameSceneMoved(g, player, light) ==
    [player |-> player, light |-> light,
     activated |-> g.activated \/ collidepoint(GoalRect, player)]

\* a variant that passes self.obstacles alone to move, without self.sides
GameSceneUpdateNoSides(g, pressed) ==
    GameSceneMoved(g,
        Move(g.player, get_movement(pressed, "LEFT", "RIGHT", "UP", "DOWN"),
             PlayerSpeed, PlayerHitbox, SceneObstacles),
        Move(g.light, get_movement(pressed, "a", "d", "w", "s"),
             LightSpeed, LightHitbox, SceneObstacles))

GameSceneMovedUnlatched(g, player, light) ==
    [player |-> player, light |-> light,
     activated |-> collidepoint(GoalRect, player)]

\* a variant that assigns the result of collidepoint to goal.activated
GameSceneUpdateUnlatched(g, pressed) ==
    GameSceneMovedUnlatched(g,
        Move(g.player, get_movement(pressed, "LEFT", "RIGHT", "UP", "DOWN"),
             PlayerSpeed, PlayerHitbox, AllObstacles),
        Move(g.light, get_movement(pressed, "a", "d", "w", "s"),
             LightSpeed, LightHitbox, AllObstacles))

\* GameScene.update under the keys held.  Every obstacle and every side of
\* the GameScene has two different ends, so neither move raises.
GameSceneUpdate(g, pressed) ==
    GameSceneMoved(g,
        Move(g.player, get_movement(pressed, "LEFT", "RIGHT", "UP", "DOWN"),
             PlayerSpeed, PlayerHitbox, AllObstacles),
        Move(g.light, get_movement(pressed, "a", "d", "w", "s"),
             LightSpeed, LightHitbox, AllObstacles))

\* the rounded position line_of_sight_polygon starts from
RoundedPos(pos) == <<PyRound(pos[1]), PyRound(pos[2])>>

\* some ray of line_of_sight_polygon(obstacles) has length zero: render
\* raises ZeroDivisionError
ZeroLengthRay(light, obstacles) ==
    RoundedPos(light) \in {obstacles[k].start_pos : k \in 1..Len(obstacles)}
                             \cup {obstacles[k].end_pos : k \in 1..Len(obstacles)}

(***************************************************************************)
(* Events.  type is "QUIT", "KEYDOWN" (key), "MOUSEBUTTONUP" (pos) or      *)
(* "USEREVENT" (user_event, scene).                                        *)
(***************************************************************************)
NEW_GAME == 1

SCENE_CHANGE == 2

\* UserEvent.new_game()
new_game == [type |-> "USEREVENT", user_event |-> NEW_GAME, scene |-> "none"]

\* UserEvent.change_scene(scene_name)
change_scene(scene_name) ==
    [type |-> "USEREVENT", user_event |-> SCENE_CHANGE, scene |-> scene_name]

KeyDown(key) == [type |-> "KEYDOWN", key |-> key]

MouseUp(pos) == [type |-> "MOUSEBUTTONUP", pos |-> pos]

QuitEvent == [type |-> "QUIT"]

\* MainMenu.render: the rects of the buttons new_game, settings, quitbutton
\* on the 800 pixel wide screen; Rect(0, 0, 0, 0) before the first render
ButtonRect(i, rendered) ==
    IF rendered
    THEN [x |-> (WindowWidth - (8 * WindowWidth) \div 10) \div 2,
          y |-> 300 + (i - 1) * (50 + 20),
          w |-> (8 * WindowWidth) \div 10, h |-> 50]
    ELSE [x |-> 0, y |-> 0, w |-> 0, h |-> 0]

\* the buttons whose rect holds the point of a click (integer pixels)
ButtonsAt(pos, rendered) ==
    {i \in 1..3 : collidepoint(ButtonRect(i, rendered),
                               Pos(pos))}

\* a variant in which the key n posts new_game and change_scene("game")
RECURSIVE MenuHandleKeyBoth(_, _, _, _)
MenuHandleKeyBoth(events, rendered, k, acc) ==
    IF k > Len(events) \/ acc.exit THEN acc
    ELSE LET e == events[k]
             next ==
               IF e.type = "KEYDOWN"
               THEN IF e.key = "ESCAPE" THEN [acc EXCEPT !.exit = TRUE]
                    ELSE IF e.key = "n"
                    THEN [acc EXCEPT !.posted = @ \o <<new_game, change_scene("game")>>]
                    ELSE IF e.key = "c"
                    THEN [acc EXCEPT !.posted = Append(@, change_scene("game"))]
                    ELSE acc
               ELSE IF e.type = "MOUSEBUTTONUP"
               THEN LET hit == ButtonsAt(e.pos, rendered)
                    IN  [posted |-> IF 1 \in hit THEN Append(acc.posted, new_game)
                                    ELSE acc.posted,
                         exit |-> 3 \in hit]
               ELSE acc
         IN  MenuHandleKeyBoth(events, rendered, k + 1, next)

\* MainMenu.handle_events from event k on: acc is [posted, exit]
RECURSIVE MenuHandleEvents(_, _, _, _)
MenuHandleEvents(events, rendered, k, acc) ==
    IF k > Len(events) \/ acc.exit THEN acc
    ELSE LET e == events[k]
             next ==
               IF e.type = "KEYDOWN"
               THEN IF e.key = "ESCAPE" THEN [acc EXCEPT !.exit = TRUE]
                    ELSE IF e.key = "n"
                    THEN [acc EXCEPT !.posted = Append(@, new_game)]
                    ELSE IF e.key = "c"
                    THEN [acc EXCEPT !.posted = Append(@, change_scene("game"))]
                    ELSE acc
               ELSE IF e.type = "MOUSEBUTTONUP"
               THEN LET hit == ButtonsAt(e.pos, rendered)
                    IN  [posted |-> IF 1 \in hit THEN Append(acc.posted, new_game)
                                    ELSE acc.posted,
                         exit |-> 3 \in hit]
               ELSE acc
         IN  MenuHandleEvents(events, rendered, k + 1, next)

\* GameScene.handle_events: the events it posts
RECURSIVE GameHandleEvents(_, _)
GameHandleEvents(events, k) ==
    IF k > Len(events) THEN <<>>
    ELSE (IF events[k].type = "KEYDOWN" /\ events[k].key = "ESCAPE"
          THEN <<change_scene("mainmenu")>> ELSE <<>>)
         \o GameHandleEvents(events, k + 1)

\* a variant that asks for the main menu once every goal is activated
GameSceneUpdatePostsOnComplete(g, pressed) ==
    IF GameSceneUpdate(g, pressed).activated
    THEN <<change_scene("mainmenu")>>
    ELSE <<>>

\* the events GameScene.update posts: none, also when every goal is
\* activated (the branch at "TODO: level complete" only returns)
GameSceneUpdatePosts(g, pressed) == <<>>

\* the "for event in events" loop of Game.run from event k on:
\* acc is [scene, game, exit, applied]
RECURSIVE RunEvents(_, _, _)
RunEvents(events, k, acc) ==
    IF k > Len(events) \/ acc.exit THEN acc
    ELSE LET e == events[k]
             next ==
               IF e.type = "QUIT" THEN [acc EXCEPT !.exit = TRUE]
               ELSE IF e.type = "USEREVENT" /\ e.user_event = NEW_GAME
               THEN [acc EXCEPT !.game = NewGameScene, !.scene = "game",
                                !.applied = @ + 1, !.fresh = TRUE]
               ELSE IF e.type = "USEREVENT" /\ e.user_event = SCENE_CHANGE
               THEN [acc EXCEPT !.scene = e.scene, !.applied = @ + 1]
               ELSE acc
         IN  RunEvents(events, k + 1, next)

\* the number of events of the batch with the given type
CountType(events, types) ==
    Cardinality({k \in 1..Len(events) : events[k].type \in types})

\* a variant in which the GameScene is updated whichever scene is active
SceneUpdateBoth(active, g, pressed) == GameSceneUpdate(g, pressed)

\* self.scene.update(): the stored GameScene after the update of the active
\* scene; MainMenu.update touches the buttons and the cursor only
SceneUpdate(active, g, pressed) ==
    IF active = "game" THEN GameSceneUpdate(g, pressed) ELSE g

(***************************************************************************)
(* One iteration of the loop of Game.run, the batch pygame.event.get()     *)
(* being the posted user events followed by the input events that arrived. *)
(***************************************************************************)
\* the end of the iteration: ran is the outcome of the events loop, handled
\* that of handle_events, updated the stored GameScene after update, exit
\* says that SystemExit was raised and raised that render raised
FrameEnd(events, ran, handled, updated, exit, raised) ==
    /\ frame' = frame + 1
    /\ scene' = ran.scene
    /\ running' = IF exit THEN "exit"
                  ELSE IF raised THEN "error" ELSE "running"
    /\ game' = IF exit THEN ran.game ELSE updated
    /\ queue' = IF ran.exit THEN <<>>
                ELSE IF exit \/ ran.scene # "game" THEN handled.posted
                ELSE handled.posted \o GameSceneUpdatePosts(ran.game, keys)
    /\ menu' = [rendered |-> menu.rendered
                               \/ (~exit /\ ran.scene = "mainmenu")]
    /\ hist' =
         [applied |-> ran.applied,
          inputs_before |-> hist.inputs_now,
          inputs_now |-> CountType(events, {"KEYDOWN", "MOUSEBUTTONUP"}),
          updated |-> ~exit /\ ran.scene = "game",
          from |-> ran.game,
          pressed |-> keys,
          ever_inside |->
             \/ ~ran.fresh /\ hist.ever_inside
             \/ ~exit /\ ran.scene = "game"
                      /\ collidepoint(GoalRect, updated.player)]

\* self.scene.render(self.screen)
FrameRender(events, ran, handled, updated, exit) ==
    FrameEnd(events, ran, handled, updated, exit,
             ~exit /\ ran.scene = "game"
                   /\ ZeroLengthRay(updated.light, AllObstacles))

\* self.scene.update()
FrameUpdate(events, ran, handled) ==
    FrameRender(events, ran, handled, SceneUpdate(ran.scene, ran.game, keys),
                ran.exit \/ handled.exit)

\* self.scene.handle_events(events)
FrameHandle(events, ran) ==
    FrameUpdate(events, ran,
        IF ran.scene = "mainmenu"
        THEN MenuHandleEvents(events, menu.rendered, 1,
                              [posted |-> <<>>, exit |-> FALSE])
        ELSE [posted |-> GameHandleEvents(events, 1), exit |-> FALSE])

\* the "for event in events" loop
FrameEvents(events) ==
    FrameHandle(events,
        RunEvents(events, 1,
                  [scene |-> scene, game |-> game, exit |-> FALSE,
                   applied |-> 0, fresh |-> FALSE]))

Frame(inputs) ==
    /\ running = "running"
    /\ FrameEvents(queue \o inputs)
    /\ UNCHANGED <<keys, rayCall, losCall>>

(***************************************************************************)
(* The keyboard.  The keys held change only between two frames whose       *)
(* number is a multiple of HoldFrames, to one of KeyCombos.                *)
(***************************************************************************)
HoldFrames == 400

MaxFrames == 850

\* the key sets held: player right / light up-left, player down / light down-left,
\* player up-left / light up (a and d cancel); no key is held before the
\* first change
KeyCombos ==
    { {"RIGHT", "a", "w"}, {"DOWN", "a", "s"},
      {"UP", "LEFT", "a", "d", "w"} }

KeyChange ==
    /\ running = "running"
    /\ frame % HoldFrames = 0
    /\ frame < MaxFrames
    /\ \E k \in KeyCombos \ {keys} : keys' = k
    /\ UNCHANGED <<rayCall, losCall, scene, game, menu, queue, running, frame, hist>>

\* Game.__init__ and the start of run
GameInit ==
    /\ scene = "game"
    /\ game = NewGameScene
    /\ menu = [rendered |-> FALSE]
    /\ queue = <<>>
    /\ keys = {}
    /\ running = "running"
    /\ frame = 0
    /\ hist = [applied |-> 0, inputs_before |-> 0, inputs_now |-> 0,
               updated |-> FALSE, from |-> NewGameScene, pressed |-> {},
               ever_inside |-> FALSE]
    /\ rayCall = IdleRay
    /\ losCall = IdleLos

\* the game is not started in the harnesses of the pure functions
GameOff ==
    /\ scene = "game"
    /\ game = NewGameScene
    /\ menu = [rendered |-> FALSE]
    /\ queue = <<>>
    /\ keys = {}
    /\ running = "off"
    /\ frame = 0
    /\ hist = [applied |-> 0, inputs_before |-> 0, inputs_now |-> 0,
               updated |-> FALSE, from |-> NewGameScene, pressed |-> {},
               ever_inside |-> FALSE]

(***************************************************************************)
(* Play: frames in which no input event arrives (keys are only held).      *)
(***************************************************************************)
PlayFrame ==
    /\ frame < MaxFrames
    /\ Frame(<<>>)

PlayNext == KeyChange \/ PlayFrame

SpecPlay == GameInit /\ [][PlayNext]_vars

(***************************************************************************)
(* Run: the first MaxRunFrames frames, with up to two input events         *)
(* arriving before each.                                                   *)
(***************************************************************************)
MaxRunFrames == 3

\* a click on the New Game button and one beside the buttons
ClickPoints == {<<400, 325>>, <<10, 10>>}

InputEvents ==
    {QuitEvent} \cup {KeyDown(k) : k \in {"ESCAPE", "n", "c"}}
               \cup {MouseUp(q) : q \in ClickPoints}

\* the input events that arrive before one frame: none, one or two
InputBatches ==
    {<<>>} \cup {<<e>> : e \in InputEvents}
           \cup {<<e[1], e[2]>> : e \in InputEvents \X InputEvents}

RunFrame ==
    /\ frame < MaxRunFrames
    /\ \E inputs \in InputBatches : Frame(inputs)

RunNext == KeyChange \/ RunFrame

SpecRun == GameInit /\ [][RunNext]_vars

(***************************************************************************)
(* Harness of intersect_ray_line: the inputs are drawn from a bounded      *)
(* integer grid, RayApply calls the function once.                         *)
(***************************************************************************)
RayMax == 2

RayGrid == (0..RayMax) \X (0..RayMax)

RayDirs == ((-RayMax..RayMax) \X (-RayMax..RayMax)) \ {<<0, 0>>}

RayInit ==
    /\ rayCall \in [origin : RayGrid, direction : RayDirs, p1 : RayGrid,
                    p2 : RayGrid, result : {Pending}]
    /\ rayCall.p1 # rayCall.p2
    /\ losCall = IdleLos
    /\ GameOff

RayApply ==
    /\ rayCall.result = Pending
    /\ rayCall' = [rayCall EXCEPT !.result =
           intersect_ray_line(rayCall.origin, rayCall.direction,
                              rayCall.p1, rayCall.p2)]
    /\ UNCHANGED <<losCall, scene, game, menu, queue, keys, running, frame, hist>>

RayNext == RayApply

SpecRay == RayInit /\ [][RayNext]_vars

(***************************************************************************)
(* Harness of line_of_sight_polygon: a WinW x WinH window, a light at any  *)
(* half-pixel position strictly inside it, and the obstacle list           *)
(* [obstacle] + get_sides(WinW, WinH) with no or one obstacle whose ends   *)
(* are integer points strictly inside the window.  LosApply calls the      *)
(* method on that list and on the boundary alone.                          *)
(***************************************************************************)
WinW == 4

WinH == 3

LosLights == {<<FDiv(FInt(a), FInt(2)), FDiv(FInt(b), FInt(2))>> :
                 a \in 1..(2 * WinW - 1), b \in 1..(2 * WinH - 1)}

InnerPoints == (1..(WinW - 1)) \X (1..(WinH - 1))

LosObstacleLists ==
    {<<>>} \cup {<<Obstacle(e[1], e[2])>> :
                    e \in {x \in InnerPoints \X InnerPoints : x[1] # x[2]}}

LosInit ==
    /\ \E l \in LosLights, obs \in LosObstacleLists :
          losCall = [light |-> l, obstacles |-> obs \o get_sides(WinW, WinH),
                     result |-> Pending, boundary_result |-> Pending]
    /\ rayCall = IdleRay
    /\ GameOff

LosApply ==
    /\ losCall.result = Pending
    /\ losCall' = [losCall EXCEPT
          !.result = line_of_sight_polygon(losCall.light, losCall.obstacles),
          !.boundary_result =
              line_of_sight_polygon(losCall.light, get_sides(WinW, WinH))]
    /\ UNCHANGED <<rayCall, scene, game, menu, queue, keys, running, frame, hist>>

LosNext == LosApply

SpecLos == LosInit /\ [][LosNext]_vars

(***************************************************************************)
(* The same call with two obstacles inside the window: the light is at an  *)
(* integer point strictly inside it and the obstacle list is               *)
(* [obstacle, obstacle] + get_sides(WinW, WinH), as GameScene.render       *)
(* passes self.obstacles + self.sides.  Each obstacle runs from an integer *)
(* point strictly inside the window to a neighbour of it: the point below  *)
(* it or one of the three points of the next column beside it.             *)
(***************************************************************************)
NeighbourPairs ==
    {e \in InnerPoints \X InnerPoints :
        \/ e[2][1] = e[1][1] /\ e[2][2] = e[1][2] + 1
        \/ e[2][1] = e[1][1] + 1 /\ Abs(e[2][2] - e[1][2]) <= 1}

LosTwoLists ==
    {<<Obstacle(c[1][1], c[1][2]), Obstacle(c[2][1], c[2][2])>> :
        c \in NeighbourPairs \X NeighbourPairs}

LosTwoInit ==
    /\ \E l \in InnerPoints, obs \in LosTwoLists :
          losCall = [light |-> Pos(l),
                     obstacles |-> obs \o get_sides(WinW, WinH),
                     result |-> Pending, boundary_result |-> Pending]
    /\ rayCall = IdleRay
    /\ GameOff

SpecLosTwo == LosTwoInit /\ [][LosNext]_vars

LosDone == losCall.result \notin {Pending, Idle}

\* the rounded light position the sweep works from
LosPos == <<PyRound(losCall.light[1]), PyRound(losCall.light[2])>>

LosPosInside ==
    /\ 0 < LosPos[1] /\ LosPos[1] < WinW
    /\ 0 < LosPos[2] /\ LosPos[2] < WinH

BoundaryOnly == Len(losCall.obstacles) = 4

Corners == {<<0, 0>>, <<WinW, 0>>, <<0, WinH>>, <<WinW, WinH>>}

\* the polygon point p is the integer point c
PointIsAt(p, c) ==
    /\ ~p.t.init
    /\ \A i \in 1..2 : p.pos[i] * p.t.d + p.ray[i] * p.t.n = c[i] * p.t.d

(***************************************************************************)
(* C1                                                                      *)
(***************************************************************************)
\* C1: with only the four boundary segments and a light strictly inside the
\* window (also after rounding), the polygon is the four boundary corners, each once and nothing
\* else, in a consistent winding order (consecutive corners share a side).
C1_FourCorners ==
    (LosDone /\ BoundaryOnly /\ LosPosInside) =>
        /\ losCall.result.kind = "poly"
        /\ LET poly == losCall.result.poly
               next(i) == IF i = Len(poly) THEN 1 ELSE i + 1
           IN  /\ Len(poly) = 4
               /\ \A c \in Corners :
                     Cardinality({i \in 1..Len(poly) : PointIsAt(poly[i], c)}) = 1
               /\ \A i \in 1..Len(poly) :
                     \E c1 \in Corners, c2 \in Corners :
                        /\ PointIsAt(poly[i], c1)
                        /\ PointIsAt(poly[next(i)], c2)
                        /\ (c1[1] = c2[1]) # (c1[2] = c2[2])

(***************************************************************************)
(* C2                                                                      *)
(***************************************************************************)
\* The factor of a polygon point as a fraction: the initial min_dist
\* 4500/|ray| is taken with |ray| to one decimal place.
PointT(p) ==
    IF p.t.init THEN <<MinDistInit * 10, ISqrt(100 * VLen2(p.ray))>>
    ELSE <<p.t.n, p.t.d>>

\* the point as <<x numerator, y numerator, denominator>>
Coords(p) ==
    LET t == PointT(p)
    IN  <<p.pos[1] * t[2] + p.ray[1] * t[1],
          p.pos[2] * t[2] + p.ray[2] * t[1], t[2]>>

\* sign of the turn a -> b -> c of three such points
OrientQ(a, b, c) ==
    CmpProd(b[1] * a[3] - a[1] * b[3], c[2] * a[3] - a[2] * c[3],
            b[2] * a[3] - a[2] * b[3], c[1] * a[3] - a[1] * c[3])

\* coordinate i of c lies between those of a and b
BetweenQ(a, b, c) ==
    \A i \in 1..2 :
        \/ a[i] * c[3] <= c[i] * a[3] /\ c[i] * b[3] <= b[i] * c[3]
        \/ b[i] * c[3] <= c[i] * b[3] /\ c[i] * a[3] <= a[i] * c[3]

\* the segments a-b and c-d have a point in common: they cross, or an end of
\* one lies on the other
SegmentsMeet(a, b, c, d) ==
    LET o1 == OrientQ(a, b, c)
        o2 == OrientQ(a, b, d)
        o3 == OrientQ(c, d, a)
        o4 == OrientQ(c, d, b)
    IN  \/ o1 * o2 < 0 /\ o3 * o4 < 0
        \/ o1 = 0 /\ BetweenQ(a, b, c)
        \/ o2 = 0 /\ BetweenQ(a, b, d)
        \/ o3 = 0 /\ BetweenQ(c, d, a)
        \/ o4 = 0 /\ BetweenQ(c, d, b)

\* no two non-adjacent edges of the closed polygon meet
IsSimple(poly) ==
    LET n == Len(poly)
        q == [i \in 1..n |-> Coords(poly[i])]
        next(i) == IF i = n THEN 1 ELSE i + 1
    IN  \A i \in 1..n : \A j \in (i + 2)..n :
            (i = 1 /\ j = n) \/ ~SegmentsMeet(q[i], q[next(i)], q[j], q[next(j)])

\* C2: for a light strictly inside the window and non-overlapping obstacles
\* plus the boundary, the returned points, closed from the last to the first,
\* form a simple polygon: no two non-adjacent edges cross or overlap.
C2_SimplePolygon ==
    (LosDone /\ LosPosInside /\ losCall.result.kind = "poly")
        => IsSimple(losCall.result.poly)

(***************************************************************************)
(* C3                                                                      *)
(***************************************************************************)
\* sign of the turn a -> b -> c
Orient(a, b, c) == Sign(VCross(VSub(b, a), VSub(c, a)))

\* the obstacle a-b hides corner c from pos: the sight line pos-c passes
\* through the obstacle strictly between its ends
Hides(pos, a, b, c) ==
    /\ Orient(pos, c, a) * Orient(pos, c, b) < 0
    /\ Orient(a, b, pos) * Orient(a, b, c) < 0

HiddenCorners ==
    {c \in Corners : Hides(LosPos, losCall.obstacles[1].start_pos,
                           losCall.obstacles[1].end_pos, c)}

\* one obstacle strictly inside the boundary, not touching the rounded light
\* position and seen from it from the side (the light is not on the
\* obstacle's line), the light itself inside after rounding
OneVisibleObstacle ==
    /\ LosDone
    /\ Len(losCall.obstacles) = 5
    /\ LosPosInside
    /\ Orient(losCall.obstacles[1].start_pos, losCall.obstacles[1].end_pos,
              LosPos) # 0

\* C3 as stated: one such obstacle makes the polygon exactly 2 vertices longer
\* than the polygon of the boundary alone.
C3_TwoMore ==
    OneVisibleObstacle =>
        /\ losCall.result.kind = "poly"
        /\ losCall.boundary_result.kind = "poly"
        /\ Len(losCall.result.poly) = Len(losCall.boundary_result.poly) + 2

\* C3 amended: one such obstacle makes the polygon 4 vertices longer (a near
\* and a far point for each of its two ends) less 2 for every boundary corner
\* it hides from the light; so exactly 4 longer when it hides no corner.
C3_FourMoreLessHidden ==
    OneVisibleObstacle =>
        /\ losCall.result.kind = "poly"
        /\ losCall.boundary_result.kind = "poly"
        /\ Len(losCall.result.poly) =
              Len(losCall.boundary_result.poly) + 4
                 - 2 * Cardinality(HiddenCorners)

\* an obstacle that hides no corner: the polygon is 4 vertices longer
C3_Witness ==
    /\ OneVisibleObstacle
    /\ Cardinality(HiddenCorners) = 0
    /\ Len(losCall.result.poly) = Len(losCall.boundary_result.poly) + 4

(***************************************************************************)
(* C8                                                                      *)
(***************************************************************************)
\* the rounded light position is an end of some obstacle of the list
LightOnObstacleEnd ==
    \E k \in 1..Len(losCall.obstacles) :
        LosPos \in {losCall.obstacles[k].start_pos, losCall.obstacles[k].end_pos}

\* C8: a light whose rounded position is an end of an obstacle (a ray of zero
\* length) does not make line_of_sight_polygon fail: it returns a polygon.
C8_ZeroRayNoError ==
    (LosDone /\ LightOnObstacleEnd) => losCall.result.kind = "poly"

(***************************************************************************)
(* C7                                                                      *)
(***************************************************************************)
\* The forward ray origin + t1*direction (t1 >= 0) crosses the segment p1-p2:
\* the two are not parallel, the segment's ends are not strictly on one side
\* of the ray's line, and the point of the segment on that line is not behind
\* the origin.  With s1, s2 the signed areas of p1, p2 against the ray, the
\* point is p1 + (s1/(s1-s2))*(p2-p1).
RayCrosses(origin, direction, p1, p2) ==
    LET s1 == VCross(direction, VSub(p1, origin))
        s2 == VCross(direction, VSub(p2, origin))
        w == s1 - s2
        along == VDot(VSub(p1, origin), direction) * w
                   + s1 * VDot(VSub(p2, p1), direction)
    IN  /\ VCross(direction, VSub(p2, p1)) # 0
        /\ Sign(s1) * Sign(s2) <= 0
        /\ Sign(w) * along >= 0

RayResultExact(c) ==
    LET r == c.result
        d == r.t1[2]
    IN  /\ d > 0 /\ r.t2[2] = d
        /\ r.t1[1] >= 0 /\ 0 <= r.t2[1] /\ r.t2[1] <= d
        /\ \A i \in 1..2 :
              c.origin[i] * d + r.t1[1] * c.direction[i]
                = c.p1[i] * d + r.t2[1] * (c.p2[i] - c.p1[i])

\* C7: intersect_ray_line returns None exactly when the forward ray does not
\* cross the segment (a parallel ray, collinear or not, counts as not
\* crossing); otherwise it returns (t1, t2) with t1 >= 0, 0 <= t2 <= 1 and
\* origin + t1*direction = p1 + t2*(p2 - p1).
C7_RayLine ==
    rayCall.result \notin {Pending, Idle} =>
        /\ (rayCall.result = None) <=>
               ~RayCrosses(rayCall.origin, rayCall.direction, rayCall.p1, rayCall.p2)
        /\ rayCall.result # None => RayResultExact(rayCall)

\* A ray that hits the interior of the segment at a fractional t1.
C7_Witness ==
    /\ rayCall.result \notin {Pending, Idle, None}
    /\ rayCall.result.t2[1] > 0 /\ rayCall.result.t2[1] < rayCall.result.t2[2]
    /\ rayCall.result.t1[1] % rayCall.result.t1[2] # 0

(***************************************************************************)
(* C4                                                                      *)
(***************************************************************************)
\* the distance from obstacle k of the scene (boundary included) to pos
SceneDist(k, pos) ==
    line_segment_dist(AllObstacles[k].start_pos, AllObstacles[k].end_pos, pos)

\* the pixel of pos is not far from obstacle k: the distance may be below
\* radius + 1/2
SceneNear(k, pos, radius) ==
    ~FarFrom(AllObstacles[k].start_pos, AllObstacles[k].end_pos, Cell(pos),
             radius)

\* no obstacle and no boundary segment is closer than radius to pos, the
\* distance being measured to every segment the pixel of pos is not far from
KeepsAway(pos, radius) ==
    \A k \in 1..Len(AllObstacles) :
        SceneNear(k, pos, radius) => ~DistBelow(SceneDist(k, pos), radius)

\* the test of Movable.move on pos passes
Clear(pos, radius) == ~Blocked(AllObstacles, pos, Cell(pos), radius)

PlayerMove(pressed) == get_movement(pressed, "LEFT", "RIGHT", "UP", "DOWN")

LightMove(pressed) == get_movement(pressed, "a", "d", "w", "s")

\* C4: in every reachable state of the GameScene the player is at distance
\* >= 10 and the light at distance >= 5 from every obstacle segment and every
\* boundary segment, as line_segment_dist measures it.
C4_KeepsDistance ==
    /\ KeepsAway(game.player, PlayerHitbox)
    /\ KeepsAway(game.light, LightHitbox)

\* a frame that refused the player's move, the light resting at a distance of
\* exactly its radius from a segment
C4_Witness ==
    /\ hist.updated
    /\ PlayerMove(hist.pressed) # <<0, 0>>
    /\ game.player = hist.from.player
    /\ \E k \in 1..Len(AllObstacles) :
          /\ SceneNear(k, game.light, LightHitbox)
          /\ DistBelowOrEqual(SceneDist(k, game.light), LightHitbox)

(***************************************************************************)
(* C5                                                                      *)
(***************************************************************************)
\* new is the candidate when the direction is not zero and the candidate is
\* clear of every obstacle, and old otherwise
AllOrNothingAt(old, new, candidate, direction, radius) ==
    IF direction # <<0, 0>> /\ Clear(candidate, radius)
    THEN new = candidate
    ELSE new = old

\* the candidate is old + direction scaled to speed
AllOrNothing(old, new, direction, speed, radius) ==
    IF direction = <<0, 0>> THEN new = old
    ELSE AllOrNothingAt(old, new, PosAdd(old, ScaleToLength(direction, speed)),
                        direction, radius)

\* C5: Movable.move is all-or-nothing: the position after the call is the
\* candidate exactly when the direction is non-zero and no obstacle is closer
\* than hitbox_radius to the candidate, and the old position in every other
\* case, never a partial or slid displacement.
C5_AllOrNothing ==
    hist.updated =>
        /\ AllOrNothing(hist.from.player, game.player,
                        PlayerMove(hist.pressed), PlayerSpeed, PlayerHitbox)
        /\ AllOrNothing(hist.from.light, game.light,
                        LightMove(hist.pressed), LightSpeed, LightHitbox)

\* the candidate with the vertical part of its step left out
HorizontalPart(pos, candidate) == <<candidate[1], pos[2]>>

\* a diagonal move of the player refused although its horizontal part alone
\* would have been clear
C5_Witness ==
    /\ hist.updated
    /\ PlayerMove(hist.pressed)[1] # 0 /\ PlayerMove(hist.pressed)[2] # 0
    /\ game.player = hist.from.player
    /\ Clear(HorizontalPart(game.player,
                PosAdd(game.player,
                       ScaleToLength(PlayerMove(hist.pressed), PlayerSpeed))),
             PlayerHitbox)

(***************************************************************************)
(* C6                                                                      *)
(***************************************************************************)
\* C6: the goal's activated flag is true after an update exactly if the
\* player's position after the movement step of that update or of an earlier
\* update of the same scene was inside the goal's rectangle: set in the frame
\* the player enters, never false again.
C6_GoalLatched == game.activated <=> hist.ever_inside

\* the player has entered the goal and left it again
C6_Witness ==
    /\ hist.updated
    /\ game.activated
    /\ ~collidepoint(GoalRect, game.player)

(***************************************************************************)
(* C9                                                                      *)
(***************************************************************************)
\* C9: in every reachable state of the game the rounded light position
\* differs from every end of every obstacle and boundary segment, so no ray
\* of line_of_sight_polygon has length zero and render does not raise.
C9_NoZeroRay ==
    /\ ~ZeroLengthRay(game.light, AllObstacles)
    /\ running # "error"

\* the light pushed towards an end of an obstacle and stopped within 12
\* pixels of it
C9_Witness ==
    /\ hist.updated
    /\ LightMove(hist.pressed) # <<0, 0>>
    /\ game.light = hist.from.light
    /\ \E k \in 1..Len(SceneObstacles) :
          \E e \in {SceneObstacles[k].start_pos, SceneObstacles[k].end_pos} :
             /\ Abs(RoundedPos(game.light)[1] - e[1]) <= 12
             /\ Abs(RoundedPos(game.light)[2] - e[2]) <= 12

(***************************************************************************)
(* C10                                                                     *)
(***************************************************************************)
\* C10 as stated: in every iteration of the frame loop at most one scene
\* transition (NEW_GAME or SCENE_CHANGE) is applied.
C10_AtMostOne == hist.applied <= 1

\* C10 amended: an iteration applies at most as many scene transitions as
\* the previous iteration handled key presses and mouse button releases; so
\* at most one when at most one such event arrived in the previous frame.
C10_AtMostInputs == hist.applied <= hist.inputs_before

\* two transitions applied in the frame after one that handled two events
C10_Witness ==
    /\ hist.applied = 2
    /\ hist.inputs_before = 2

(***************************************************************************)
(* C11                                                                     *)
(***************************************************************************)
\* the call returned a polygon: no ray had length zero
LosPoly == LosDone /\ losCall.result.kind = "poly"

\* C11: for every obstacle list that holds the window's boundary and every
\* light position strictly inside the window without zero-length rays, the
\* first_obstacle compared in the seam check is the value on_obstacle had
\* right after the first ray of the sorted sweep, never a value recorded
\* from a later ray.
C11_FirstObstacleFromFirstRay ==
    (LosPoly /\ LosPosInside) =>
        losCall.result.first_obstacle = losCall.result.on_after[1]

\* a sweep in which a later ray leaves on_obstacle None, another later ray
\* leaves an obstacle that is not the one of the first ray, and the last ray
\* leaves a value that is not the one of the first ray
C11_Witness ==
    /\ LosPoly /\ LosPosInside
    /\ Len(losCall.obstacles) = 6
    /\ losCall.result.on_after[1] # 0
    /\ \E k \in 2..Len(losCall.result.on_after) :
          losCall.result.on_after[k] = 0
    /\ \E k \in 2..Len(losCall.result.on_after) :
          losCall.result.on_after[k] \notin {0, losCall.result.on_after[1]}
    /\ losCall.result.on_after[Len(losCall.result.on_after)]
          # losCall.result.on_after[1]

(***************************************************************************)
(* C12                                                                     *)
(***************************************************************************)
\* C12: whenever the first two points of the polygon are exchanged at the end
\* of the sweep (final on_obstacle = first_obstacle), both were appended by
\* the first ray: the exchange never reorders points of two different rays.
\* Stated for obstacle lists that hold the window's boundary, the light
\* strictly inside the window, and sweeps whose first two rays point in
\* different directions, so that points of different rays are different
\* points.
C12_SwapWithinFirstRay ==
    (/\ LosPoly /\ LosPosInside /\ losCall.result.swapped
     /\ VCross(losCall.result.ends[1], losCall.result.ends[2]) # 0) =>
        losCall.result.emitted[1] = 2

(***************************************************************************)
(* C13                                                                     *)
(***************************************************************************)
\* C13: in the frame in which the goal becomes activated and in every later
\* frame, with no input event arriving, GameScene.update posts no NEW_GAME or
\* SCENE_CHANGE event (nothing is queued, no transition is applied), the
\* active scene stays the GameScene, and the player and the light move under
\* the keys held by the same rule as before.
C13_NoTransitionOnActivation ==
    (hist.updated /\ game.activated) =>
        /\ queue = <<>>
        /\ hist.applied = 0
        /\ scene = "game"
        /\ running = "running"
        /\ AllOrNothing(hist.from.player, game.player,
                        PlayerMove(hist.pressed), PlayerSpeed, PlayerHitbox)
        /\ AllOrNothing(hist.from.light, game.light,
                        LightMove(hist.pressed), LightSpeed, LightHitbox)

\* a frame after the one that activated the goal, in which the player and the
\* light both moved
C13_Witness ==
    /\ hist.updated
    /\ hist.from.activated
    /\ game.activated
    /\ game.player # hist.from.player
    /\ game.light # hist.from.light

(***************************************************************************)
(* C14                                                                     *)
(***************************************************************************)
\* sign of (q - p) x (c - p) for positions p, q, c, without rounding
PosOrient(p, q, c) ==
    XSub(XMul(XSub(q[1], p[1]), XSub(c[2], p[2])),
         XMul(XSub(q[2], p[2]), XSub(c[1], p[1])))[1]

\* each coordinate of c lies between those of a and b
PosBetween(a, b, c) ==
    \A i \in 1..2 :
        \/ XCmp(a[i], c[i]) <= 0 /\ XCmp(c[i], b[i]) <= 0
        \/ XCmp(b[i], c[i]) <= 0 /\ XCmp(c[i], a[i]) <= 0

\* the segments a-b and c-d between positions have a point in common
PosSegmentsMeet(a, b, c, d) ==
    \/ /\ PosOrient(a, b, c) * PosOrient(a, b, d) < 0
       /\ PosOrient(c, d, a) * PosOrient(c, d, b) < 0
    \/ PosOrient(a, b, c) = 0 /\ PosBetween(a, b, c)
    \/ PosOrient(a, b, d) = 0 /\ PosBetween(a, b, d)
    \/ PosOrient(c, d, a) = 0 /\ PosBetween(c, d, a)
    \/ PosOrient(c, d, b) = 0 /\ PosBetween(c, d, b)

\* a whole number of pixels that the distance between two positions of the
\* pixels c and d is below
Reach(c, d) == 2 * (Max(Abs(d[1] - c[1]), Abs(d[2] - c[2])) + 1)

\* the straight segment old-new has a point in common with some obstacle or
\* boundary segment (one that is farther from old than new is has none)
CrossesObstacle(old, new) ==
    \E k \in 1..Len(AllObstacles) :
        /\ SceneNear(k, old, Reach(Cell(old), Cell(new)))
        /\ PosSegmentsMeet(old, new, Pos(AllObstacles[k].start_pos),
                           Pos(AllObstacles[k].end_pos))

InsideWindow(p) ==
    /\ p[1][1] > 0 /\ XCmp(p[1], FInt(WindowWidth)) < 0
    /\ p[2][1] > 0 /\ XCmp(p[2], FInt(WindowHeight)) < 0

\* C14: with the game's speeds and hitbox radii no accepted move tunnels:
\* whenever a frame changes the player's or the light's position, the
\* straight segment from the old to the new position meets no obstacle and no
\* boundary segment, and the new position is inside the window.
C14_NoTunnel ==
    hist.updated =>
        /\ game.player # hist.from.player =>
              /\ ~CrossesObstacle(hist.from.player, game.player)
              /\ InsideWindow(game.player)
        /\ game.light # hist.from.light =>
              /\ ~CrossesObstacle(hist.from.light, game.light)
              /\ InsideWindow(game.light)

\* the player has just moved to within 12 pixels of an obstacle, the light
\* to within 7
C14_Witness ==
    /\ hist.updated
    /\ game.player # hist.from.player
    /\ game.light # hist.from.light
    /\ \E k \in 1..Len(AllObstacles) :
          /\ SceneNear(k, game.player, PlayerHitbox + 2)
          /\ DistBelow(SceneDist(k, game.player), PlayerHitbox + 2)
    /\ \E k \in 1..Len(AllObstacles) :
          /\ SceneNear(k, game.light, LightHitbox + 2)
          /\ DistBelow(SceneDist(k, game.light), LightHitbox + 2)

(***************************************************************************)
(* C15                                                                     *)
(***************************************************************************)
HasNewGame(events) == \E k \in 1..Len(events) : events[k] = new_game

HasResume(events) == \E k \in 1..Len(events) : events[k] = change_scene("game")

\* one iteration of the loop, seen from the stored GameScene: game is the
\* GameScene before the iteration, hist'.from the one the active scene was
\* handed after the events loop, game' the one after the iteration
MenuKeepsGameStep ==
    frame' # frame =>
        /\ scene' = "mainmenu" => game' = game /\ hist'.from = game
        /\ (HasResume(queue) /\ ~HasNewGame(queue) /\ running' # "exit") =>
              /\ scene' = "game"
              /\ hist'.from = game
              /\ game' = GameSceneUpdate(game, keys)
        /\ hist'.from # game =>
              /\ HasNewGame(queue)
              /\ hist'.from = NewGameScene
        /\ HasNewGame(queue) => hist'.from = NewGameScene

\* C15: a frame in which the main menu is the active scene leaves the stored
\* GameScene (player, light, activated) unchanged whatever keys are held; a
\* SCENE_CHANGE to "game" hands that same state to the GameScene's update;
\* the stored GameScene is replaced only by a NEW_GAME event, and then by the
\* initial GameScene state.
C15_MenuKeepsGame == [][MenuKeepsGameStep]_vars

\* the game was left after one update with keys held, the menu was active
\* for a frame, and the third frame resumed the game from the state it was
\* left in
C15_Witness ==
    /\ frame = 3
    /\ scene = "game"
    /\ hist.updated
    /\ hist.applied = 1
    /\ hist.pressed # {}
    /\ hist.from # NewGameScene
    /\ game # hist.from

=============================================================================
